---- MODULE Spec2Model ----
(***************************************************************************)
(* Competitor Quick Scan: the client request lifecycle (Home page and      *)
(* InputForm), the /api/analyze route and the analysis pipeline behind it. *)
(*                                                                         *)
(* Strings are run-length encoded: a string is a sequence of runs          *)
(* [ch, n], n >= 1 copies of the character ch, adjacent runs holding       *)
(* different characters.  This keeps strings of 500 and 501 characters     *)
(* small while trim and length are computed on the characters.             *)
(***************************************************************************)
EXTENDS Integers, Sequences, FiniteSets, TLC

VARIABLES
    state,       \* Home: the AnalysisState
    field,       \* InputForm: the text of the input
    lastSubmit,  \* InputForm: lastSubmit.current
    now,         \* Date.now()
    calls,       \* the queries of the handleAnalyze calls awaiting their fetch
    alert,       \* the message of the open alert dialog, None when none is open
    served,      \* the route: the last request it served, None before the first
    settledAt,   \* history: Date.now() when the last fetch settled, 0 before
    download,    \* the file handed to the browser by the last download, None before
    other,       \* a second mounted page: its state, field, lastSubmit, calls, alert
    clipboard    \* the text last written to the clipboard, None before

vars == <<state, field, lastSubmit, now, calls, alert, served, settledAt, download,
         other, clipboard>>

----------------------------------------------------------------------------
(* Optional values: undefined is the empty sequence.                       *)
None == <<>>
Some(v) == <<v>>

----------------------------------------------------------------------------
(* Bounds of the model.                                                    *)

\* Longest raw input, in runs.
MaxRuns == 2
\* The clock is followed for this many milliseconds after the page loads.
MaxElapsed == 7500
\* Date.now() when the page loads.
StartTime == 20000

----------------------------------------------------------------------------
(* Program constants.                                                      *)

COOLDOWN_MS == 5000
MAX_QUERY_LENGTH == 500

----------------------------------------------------------------------------
(* Strings.                                                                *)

WhiteSpace == {" "}
Chars == {" ", "a"}
RunLengths == {1, MAX_QUERY_LENGTH, MAX_QUERY_LENGTH + 1}

Runs == [ch : Chars, n : RunLengths]

IsString(s) == \A i \in 1..(Len(s) - 1) : s[i].ch # s[i + 1].ch

RawQueries ==
    {s \in UNION {[1..k -> Runs] : k \in 0..MaxRuns} : IsString(s)}

RECURSIVE length(_)
length(s) == IF s = <<>> THEN 0 ELSE Head(s).n + length(Tail(s))

RECURSIVE trimStart(_)
trimStart(s) ==
    IF s # <<>> /\ Head(s).ch \in WhiteSpace THEN trimStart(Tail(s)) ELSE s

RECURSIVE trimEnd(_)
trimEnd(s) ==
    IF s # <<>> /\ s[Len(s)].ch \in WhiteSpace
    THEN trimEnd(SubSeq(s, 1, Len(s) - 1))
    ELSE s

trim(s) == trimEnd(trimStart(s))

----------------------------------------------------------------------------
(* JavaScript values carried by a request body.  v is the text of a string *)
(* and empty for every other type.                                         *)

JSValue(t, v) == [t |-> t, v |-> v]

JSString(s) == JSValue("string", s)

\* !query: undefined, null, false, 0 and the empty string are falsy.
falsy(x) ==
    \/ x.t \in {"undefined", "null", "false", "zero"}
    \/ x.t = "string" /\ x.v = <<>>

\* Thrown errors.  A message is a literal of the source or the text of a
\* runtime error; mentionsKey says whether the text includes the name
\* ANTHROPIC_API_KEY (a syntax error quotes the text it failed on).
Error(message, mentionsKey) == [message |-> message, mentionsKey |-> mentionsKey]

----------------------------------------------------------------------------
(* The model's reply.  A text is a sequence of tokens: prose, an opening   *)
(* or closing brace, or one member ("key": value) of a JSON object, whose  *)
(* value is a string (one item) or an array of strings.                    *)

Token(key, t, items) == [key |-> key, t |-> t, items |-> items]

Prose == Token("prose", "text", <<>>)
Open == Token("{", "brace", <<>>)
Close == Token("}", "brace", <<>>)
StringMember(key, s) == Token(key, "string", <<s>>)
ArrayMember(key, items) == Token(key, "array", items)

FullObject ==
    << Open,
       StringMember("overview", "ov"),
       ArrayMember("strengths", <<"s1", "s2">>),
       ArrayMember("weaknesses", <<"w1">>),
       StringMember("marketPosition", "mp"),
       ArrayMember("recommendations", <<"r1", "r2">>),
       Close >>

NoWeaknesses ==
    << Open,
       StringMember("overview", "ov"),
       ArrayMember("strengths", <<"s1", "s2">>),
       StringMember("marketPosition", "mp"),
       ArrayMember("recommendations", <<"r1", "r2">>),
       Close >>

NoOverview ==
    << Open,
       ArrayMember("strengths", <<"s1", "s2">>),
       ArrayMember("weaknesses", <<"w1">>),
       StringMember("marketPosition", "mp"),
       ArrayMember("recommendations", <<"r1", "r2">>),
       Close >>

\* The replies the gateway is let to return.
ModelTexts ==
    { FullObject,
      <<Prose>> \o FullObject \o <<Prose>>,
      NoWeaknesses,
      NoOverview,
      <<Prose>>,
      <<Prose, Open, StringMember("overview", "ov")>>,
      <<Open, Open, StringMember("overview", "ov"), Close>>,
      <<Open, Prose, Close>>,
      FullObject \o <<Prose>> \o FullObject }

\* client.messages.create: it throws, or returns a first content block that
\* is not text, or returns text. The message of the error thrown carries the
\* provider's own text, which may or may not hold the name of the key.
GatewayThrows == {"throws", "throws_names_key"}

GatewayResults ==
    {[kind |-> k, text |-> <<>>] : k \in GatewayThrows \cup {"not_text"}}
    \cup {[kind |-> "text", text |-> t] : t \in ModelTexts}

Indexes(text, tok) == {i \in 1..Len(text) : text[i] = tok}

Min(S) == CHOOSE x \in S : \A y \in S : x <= y
Max(S) == CHOOSE x \in S : \A y \in S : x >= y

\* content.text.match(/\{[\s\S]*\}/): from the first opening brace to the
\* last closing brace after it; None when there is no such pair.
jsonMatch(text) ==
    LET opens == Indexes(text, Open) IN
      IF opens = {} THEN None
      ELSE LET first == Min(opens)
               closes == {i \in Indexes(text, Close) : i > first}
           IN IF closes = {} THEN None
              ELSE Some(SubSeq(text, first, Max(closes)))

\* JSON.parse of a matched span: an object of members, or a syntax error.
isJson(span) ==
    /\ Len(span) >= 2
    /\ span[1] = Open
    /\ span[Len(span)] = Close
    /\ \A i \in 2..(Len(span) - 1) : span[i].t \in {"string", "array"}

Keys == {"overview", "strengths", "weaknesses", "marketPosition", "recommendations"}

\* The parsed object: each key's last member, None for a key not present.
jsonParse(span) ==
    [k \in Keys |->
        LET at == {i \in 2..(Len(span) - 1) : span[i].key = k} IN
          IF at = {} THEN None ELSE Some(span[Max(at)])]

Line(text, query) == [text |-> text, query |-> query]

Plain(text) == Line(text, <<>>)

\* items.map(s => `- ${s}`).join('\n'): one line per item, and one empty
\* line for an empty array.
\* Variant: the items are listed last to first.
RECURSIVE bulletLines_reversed(_)
bulletLines_reversed(items) ==
    IF items = <<>> THEN <<>>
    ELSE bulletLines_reversed(Tail(items)) \o <<Plain("- " \o Head(items))>>

RECURSIVE bulletLines(_)
bulletLines(items) ==
    IF items = <<>> THEN <<>>
    ELSE <<Plain("- " \o Head(items))>> \o bulletLines(Tail(items))

bullets(items) == IF items = <<>> THEN <<Plain("")>> ELSE bulletLines(items)

\* Array.prototype.toString: the items joined by commas.
RECURSIVE joinComma(_)
joinComma(items) ==
    IF items = <<>> THEN ""
    ELSE IF Len(items) = 1 THEN Head(items)
    ELSE Head(items) \o "," \o joinComma(Tail(items))

\* `${analysis.overview}`: the string, "undefined" for a missing field, the
\* joined items for an array.
interpolate(member) ==
    IF member = None THEN "undefined"
    ELSE IF member[1].t = "string" THEN member[1].items[1]
    ELSE joinComma(member[1].items)

\* analysis.strengths.map(...): defined on arrays only.
canMap(member) == member # None /\ member[1].t = "array"

\* The lines of the report; the heading line carries the query.
generateMarkdownReport(query, analysis) ==
    << Line("# Competitive Analysis: ", query),
       Plain(""),
       Plain("## Company Overview"),
       Plain(interpolate(analysis["overview"])),
       Plain(""),
       Plain("## Key Strengths") >>
    \o bullets(analysis["strengths"][1].items)
    \o << Plain(""), Plain("## Key Weaknesses") >>
    \o bullets(analysis["weaknesses"][1].items)
    \o << Plain(""),
          Plain("## Market Position"),
          Plain(interpolate(analysis["marketPosition"])),
          Plain(""),
          Plain("## Recommendations") >>
    \o bullets(analysis["recommendations"][1].items)
    \o << Plain(""),
          Plain("---"),
          Plain("*Generated by Competitor Quick Scan*") >>

Environments == [apiKey : BOOLEAN, gateway : GatewayResults]

\* The error a failed client.messages.create call throws.
gatewayError(kind) ==
    IF kind = "throws_names_key"
    THEN Error("401 invalid x-api-key, check ANTHROPIC_API_KEY", TRUE)
    ELSE Error("Connection error.", FALSE)

\* The stages of one request, in the order the code runs them: the route's
\* validation, then in analyzeCompetitor the prompt, the gateway call, the
\* extraction of the JSON and the rendering of the report.
Count(stages, x) == Cardinality({i \in 1..Len(stages) : stages[i] = x})

Thrown(e, stages) ==
    [ok |-> FALSE, analysis |-> None, markdown |-> None, error |-> Some(e),
     stages |-> stages, gatewayCalls |-> Count(stages, "gateway")]

\* The part of analyzeCompetitor after the reply's text is taken: the JSON
\* is matched and parsed, and the report is rendered.
parseResponse(query, text) ==
    LET m == jsonMatch(text) IN
      IF m = None
      THEN Thrown(Error("Failed to extract JSON from response", FALSE),
                  <<"prompt", "gateway", "extract">>)
      ELSE IF ~isJson(m[1])
      THEN Thrown(Error("Unexpected token in JSON", FALSE),
                  <<"prompt", "gateway", "extract">>)
      ELSE LET analysis == jsonParse(m[1]) IN
        IF \E k \in {"strengths", "weaknesses", "recommendations"} :
              ~canMap(analysis[k])
        THEN Thrown(Error("Cannot read properties of undefined (reading 'map')", FALSE),
                    <<"prompt", "gateway", "extract", "render">>)
        ELSE [ok |-> TRUE, analysis |-> Some(analysis),
              markdown |-> Some(generateMarkdownReport(query, analysis)),
              error |-> None,
              stages |-> <<"prompt", "gateway", "extract", "render">>,
              gatewayCalls |-> 1]

\* Variant: the key is not checked, and the client's request fails for want
\* of credentials.
analyzeCompetitor_noKeyCheck(query, env) ==
    IF ~env.apiKey
    THEN Thrown(Error("Could not resolve authentication method", FALSE),
                <<"prompt", "gateway">>)
    ELSE IF env.gateway.kind \in GatewayThrows
    THEN Thrown(gatewayError(env.gateway.kind), <<"prompt", "gateway">>)
    ELSE IF env.gateway.kind = "not_text"
    THEN Thrown(Error("Unexpected response type from Anthropic API", FALSE),
                <<"prompt", "gateway">>)
    ELSE parseResponse(query, env.gateway.text)

\* Variant: a failed gateway call is made a second time before the error is
\* thrown.
analyzeCompetitor_retries(query, env) ==
    IF ~env.apiKey
    THEN Thrown(Error("ANTHROPIC_API_KEY not configured", TRUE), <<>>)
    ELSE IF env.gateway.kind \in GatewayThrows
    THEN Thrown(gatewayError(env.gateway.kind), <<"prompt", "gateway", "gateway">>)
    ELSE IF env.gateway.kind = "not_text"
    THEN Thrown(Error("Unexpected response type from Anthropic API", FALSE),
                <<"prompt", "gateway">>)
    ELSE parseResponse(query, env.gateway.text)

\* analyzeCompetitor(query) in environment env: what it returns or throws,
\* the stages it ran and how many gateway calls it made.
analyzeCompetitor(query, env) ==
    IF ~env.apiKey
    THEN Thrown(Error("ANTHROPIC_API_KEY not configured", TRUE), <<>>)
    ELSE IF env.gateway.kind \in GatewayThrows
    THEN Thrown(gatewayError(env.gateway.kind), <<"prompt", "gateway">>)
    ELSE IF env.gateway.kind = "not_text"
    THEN Thrown(Error("Unexpected response type from Anthropic API", FALSE),
                <<"prompt", "gateway">>)
    ELSE parseResponse(query, env.gateway.text)

----------------------------------------------------------------------------
(* The route.                                                              *)

\* Request bodies: text that is not JSON (one that holds the text
\* ANTHROPIC_API_KEY apart, as the syntax error quotes the body), JSON null,
\* or a JSON value whose query property is the given value (undefined when
\* it has none).
Body(t, query) == [t |-> t, query |-> query]

NotJson == {"not_json", "not_json_names_key"}

QueryValues ==
    {JSValue(t, <<>>) : t \in {"undefined", "null", "false", "true", "zero", "number", "object"}}
    \cup {JSString(s) : s \in RawQueries}

Bodies ==
    {Body(t, JSValue("undefined", <<>>)) : t \in NotJson \cup {"null"}}
    \cup {Body("object", q) : q \in QueryValues}

Response(status, success, data, markdown, error) ==
    [status |-> status,
     body |-> [success |-> success, data |-> data, markdown |-> markdown,
               error |-> error]]

\* Variant: the catch block answers without { status: 500 }.
catchError_defaultStatus(e) ==
    IF e.mentionsKey
    THEN Response(200, FALSE, None, None, Some("API configuration error"))
    ELSE Response(200, FALSE, None, None,
                  Some("Failed to analyze competitor. Please try again."))

\* Variant: the catch block answers without an error string.
catchError_noError(e) == Response(500, FALSE, None, None, None)

\* The catch block of POST.
catchError(e) ==
    IF e.mentionsKey
    THEN Response(500, FALSE, None, None, Some("API configuration error"))
    ELSE Response(500, FALSE, None, None,
                  Some("Failed to analyze competitor. Please try again."))

\* Variant: the emptiness check does not trim.
validateQuery_noTrim(query) ==
    IF falsy(query) \/ query.t # "string" \/ length(query.v) = 0
    THEN Some("Query is required and must be a non-empty string")
    ELSE IF length(trim(query.v)) > MAX_QUERY_LENGTH
    THEN Some("Query must be less than 500 characters")
    ELSE None

\* Variant: the route's length check uses >= for >.
validateQuery_strict(query) ==
    IF falsy(query) \/ query.t # "string" \/ length(trim(query.v)) = 0
    THEN Some("Query is required and must be a non-empty string")
    ELSE IF length(trim(query.v)) >= MAX_QUERY_LENGTH
    THEN Some("Query must be less than 500 characters")
    ELSE None

\* The route's validation of the query property: None when it passes.
validateQuery(query) ==
    IF falsy(query) \/ query.t # "string" \/ length(trim(query.v)) = 0
    THEN Some("Query is required and must be a non-empty string")
    ELSE IF length(trim(query.v)) > MAX_QUERY_LENGTH
    THEN Some("Query must be less than 500 characters")
    ELSE None

\* Variant: the pipeline runs before the query is validated.
POST_analyzesFirst(body, env) ==
    IF body.t \in NotJson
    THEN [response |-> catchError(Error("Unexpected token in JSON",
                                        body.t = "not_json_names_key")),
          analyzed |-> None, stages |-> <<>>, gatewayCalls |-> 0]
    ELSE IF body.t = "null"
    THEN [response |-> catchError(Error("Cannot destructure property 'query'", FALSE)),
          analyzed |-> None, stages |-> <<>>, gatewayCalls |-> 0]
    ELSE IF body.query.t # "string"
    THEN [response |-> Response(400, FALSE, None, None, validateQuery(body.query)),
          analyzed |-> None, stages |-> <<"validate">>, gatewayCalls |-> 0]
    ELSE LET r == analyzeCompetitor(trim(body.query.v), env)
             invalid == validateQuery(body.query)
         IN [response |-> IF invalid # None
                          THEN Response(400, FALSE, None, None, invalid)
                          ELSE IF r.ok
                          THEN Response(200, TRUE, r.analysis, r.markdown, None)
                          ELSE catchError(r.error[1]),
             analyzed |-> Some(trim(body.query.v)),
             stages |-> r.stages \o <<"validate">>,
             gatewayCalls |-> r.gatewayCalls]

\* Variant: the body is read outside the try block; what request.json() or
\* the destructuring throws escapes the handler and the framework answers
\* 500 without a JSON body.
POST_parsesOutsideTry(body, env) ==
    IF body.t \in NotJson \cup {"null"}
    THEN [response |-> Response(500, FALSE, None, None, None),
          analyzed |-> None, stages |-> <<>>, gatewayCalls |-> 0]
    ELSE LET invalid == validateQuery(body.query) IN
      IF invalid # None
      THEN [response |-> Response(400, FALSE, None, None, invalid),
            analyzed |-> None, stages |-> <<"validate">>, gatewayCalls |-> 0]
      ELSE LET r == analyzeCompetitor(trim(body.query.v), env) IN
        [response |-> IF r.ok
                      THEN Response(200, TRUE, r.analysis, r.markdown, None)
                      ELSE catchError(r.error[1]),
         analyzed |-> Some(trim(body.query.v)),
         stages |-> <<"validate">> \o r.stages,
         gatewayCalls |-> r.gatewayCalls]

\* POST(request): the response, the argument analyzeCompetitor was called
\* with (None when it was not called), the stages run and the number of
\* gateway calls.
POST(body, env) ==
    IF body.t \in NotJson
    THEN [response |-> catchError(Error("Unexpected token in JSON",
                                        body.t = "not_json_names_key")),
          analyzed |-> None, stages |-> <<>>, gatewayCalls |-> 0]
    ELSE IF body.t = "null"
    THEN [response |-> catchError(Error("Cannot destructure property 'query'", FALSE)),
          analyzed |-> None, stages |-> <<>>, gatewayCalls |-> 0]
    ELSE LET invalid == validateQuery(body.query) IN
      IF invalid # None
      THEN [response |-> Response(400, FALSE, None, None, invalid),
            analyzed |-> None, stages |-> <<"validate">>, gatewayCalls |-> 0]
      ELSE LET r == analyzeCompetitor(trim(body.query.v), env) IN
        [response |-> IF r.ok
                      THEN Response(200, TRUE, r.analysis, r.markdown, None)
                      ELSE catchError(r.error[1]),
         analyzed |-> Some(trim(body.query.v)),
         stages |-> <<"validate">> \o r.stages,
         gatewayCalls |-> r.gatewayCalls]

----------------------------------------------------------------------------
(* InputForm.                                                              *)

isLoading == state.status = "loading"

\* The text input is disabled while a request is loading.
inputDisabled == isLoading

\* Variant: the button does not look at isLoading.
buttonDisabled_ignoresLoading == trim(field) = <<>>

\* The submit button: disabled while loading or while the field is blank.
buttonDisabled == isLoading \/ trim(field) = <<>>

\* Variant: no cool-down check.
submitOutcome_noCooldown(q, t, last) ==
    IF trim(q) = <<>>
    THEN [accepted |-> FALSE, alert |-> Some("Please enter a company name or URL")]
    ELSE IF length(trim(q)) > MAX_QUERY_LENGTH
    THEN [accepted |-> FALSE, alert |-> Some("Query must be less than 500 characters")]
    ELSE [accepted |-> TRUE, alert |-> None]

\* Variant: the cool-down check uses <= for <.
submitOutcome_inclusive(q, t, last) ==
    IF t - last <= COOLDOWN_MS
    THEN [accepted |-> FALSE, alert |-> Some("Please wait before submitting again")]
    ELSE submitOutcome_noCooldown(q, t, last)

\* Variant: the length check uses >= for >.
submitOutcome_strict(q, t, last) ==
    IF t - last < COOLDOWN_MS
    THEN [accepted |-> FALSE, alert |-> Some("Please wait before submitting again")]
    ELSE IF trim(q) = <<>>
    THEN [accepted |-> FALSE, alert |-> Some("Please enter a company name or URL")]
    ELSE IF length(trim(q)) >= MAX_QUERY_LENGTH
    THEN [accepted |-> FALSE, alert |-> Some("Query must be less than 500 characters")]
    ELSE [accepted |-> TRUE, alert |-> None]

\* Variant: the text is validated before the cool-down check.
submitOutcome_validatesFirst(q, t, last) ==
    IF trim(q) = <<>>
    THEN [accepted |-> FALSE, alert |-> Some("Please enter a company name or URL")]
    ELSE IF length(trim(q)) > MAX_QUERY_LENGTH
    THEN [accepted |-> FALSE, alert |-> Some("Query must be less than 500 characters")]
    ELSE IF t - last < COOLDOWN_MS
    THEN [accepted |-> FALSE, alert |-> Some("Please wait before submitting again")]
    ELSE [accepted |-> TRUE, alert |-> None]

\* handleSubmit's decision for field text q at clock reading t, the last
\* accepted submission having started at last.
submitOutcome(q, t, last) ==
    IF t - last < COOLDOWN_MS
    THEN [accepted |-> FALSE, alert |-> Some("Please wait before submitting again")]
    ELSE IF trim(q) = <<>>
    THEN [accepted |-> FALSE, alert |-> Some("Please enter a company name or URL")]
    ELSE IF length(trim(q)) > MAX_QUERY_LENGTH
    THEN [accepted |-> FALSE, alert |-> Some("Query must be less than 500 characters")]
    ELSE [accepted |-> TRUE, alert |-> None]

----------------------------------------------------------------------------
(* Home.                                                                   *)

\* Variant: the loading state keeps the query of the state before it.
startAnalyze_keepsQuery(query) ==
    /\ state' = [status |-> "loading", query |-> state.query,
                 analysis |-> None, markdown |-> None, error |-> None]
    /\ calls' = Append(calls, query)

\* Variant: the loading state is merged into the state before it, which
\* keeps its analysis, markdown and error.
startAnalyze_mergesState(query) ==
    /\ state' = [state EXCEPT !.status = "loading", !.query = query]
    /\ calls' = Append(calls, query)

\* setState({ status: 'loading', query }) followed by the fetch: one more
\* request is outstanding.
startAnalyze(query) ==
    /\ state' = [status |-> "loading", query |-> query,
                 analysis |-> None, markdown |-> None, error |-> None]
    /\ calls' = Append(calls, query)

\* A freshly mounted page: useState({ status: 'idle', query: '' }),
\* useState(''), useRef(0), no request and no dialog.
Mounted ==
    [state |-> [status |-> "idle", query |-> <<>>,
                analysis |-> None, markdown |-> None, error |-> None],
     field |-> <<>>, lastSubmit |-> 0, calls |-> <<>>, alert |-> None]

Init ==
    /\ state = [status |-> "idle", query |-> <<>>,
                analysis |-> None, markdown |-> None, error |-> None]
    /\ field = <<>>
    /\ lastSubmit = 0
    /\ now = StartTime
    /\ calls = <<>>
    /\ alert = None
    /\ served = None
    /\ settledAt = 0
    /\ download = None
    /\ clipboard = None
    /\ other = Mounted

\* The user edits the text input.
setQuery ==
    /\ alert = None
    /\ ~inputDisabled
    /\ \E q \in RawQueries : q # field /\ field' = q
    /\ UNCHANGED <<state, lastSubmit, now, calls, alert, served, settledAt,
                   download, other, clipboard>>

\* Variant: the timestamp is written before the checks.
handleSubmit_stampsFirst ==
    /\ alert = None
    /\ ~buttonDisabled
    /\ lastSubmit' = now
    /\ LET r == submitOutcome(field, now, lastSubmit) IN
         IF r.accepted
         THEN /\ startAnalyze(trim(field))
              /\ UNCHANGED <<field, now, alert, served, settledAt, download,
                             other, clipboard>>
         ELSE /\ alert' = r.alert
              /\ UNCHANGED <<state, field, now, calls, served, settledAt,
                             download, other, clipboard>>

\* The form's submit event: handleSubmit.
handleSubmit ==
    /\ alert = None
    /\ ~buttonDisabled
    /\ LET r == submitOutcome(field, now, lastSubmit) IN
         IF r.accepted
         THEN /\ lastSubmit' = now
              /\ startAnalyze(trim(field))
              /\ UNCHANGED <<field, now, alert, served, settledAt, download,
                             other, clipboard>>
         ELSE /\ alert' = r.alert
              /\ UNCHANGED <<state, field, lastSubmit, now, calls, served,
                             settledAt, download, other, clipboard>>

\* The user closes the alert dialog.
dismissAlert ==
    /\ alert # None
    /\ alert' = None
    /\ UNCHANGED <<state, field, lastSubmit, now, calls, served, settledAt,
                   download, other, clipboard>>

\* What the awaited fetch and response.json() give handleAnalyze(query): the
\* status and parsed body of the route's response, or a rejection with the
\* message of the error thrown (the network failed, or the body that
\* arrived was not JSON).
NoResponse == Response(0, FALSE, None, None, None)

FetchOutcomes(query) ==
    {[kind |-> "response", message |-> "",
      response |-> POST(Body("object", JSString(query)), env).response]
        : env \in Environments}
    \cup {[kind |-> "rejected", message |-> m, response |-> NoResponse]
            : m \in {"Failed to fetch", "Unexpected token < in JSON"}}

\* Variant: data.error is used as it is.
errorOr_noFallback(error, fallback) ==
    IF error = None THEN "" ELSE error[1]

\* data.error || 'Analysis failed'
errorOr(error, fallback) ==
    IF error = None \/ error[1] = "" THEN fallback ELSE error[1]

\* Variant: the settled state is set without the query.
settledState_dropsQuery(query, o) ==
    IF o.kind = "rejected"
    THEN [status |-> "error", query |-> <<>>, analysis |-> None,
          markdown |-> None, error |-> Some(o.message)]
    ELSE IF ~(o.response.status \in 200..299) \/ ~o.response.body.success
    THEN [status |-> "error", query |-> <<>>, analysis |-> None,
          markdown |-> None,
          error |-> Some(errorOr(o.response.body.error, "Analysis failed"))]
    ELSE [status |-> "success", query |-> <<>>,
          analysis |-> o.response.body.data,
          markdown |-> o.response.body.markdown, error |-> None]

\* Variant: there is no catch, and a rejection leaves the state as it was set
\* before the fetch.
settledState_noCatch(query, o) ==
    IF o.kind = "rejected"
    THEN [status |-> "loading", query |-> query, analysis |-> None,
          markdown |-> None, error |-> None]
    ELSE IF ~(o.response.status \in 200..299) \/ ~o.response.body.success
    THEN [status |-> "error", query |-> query, analysis |-> None,
          markdown |-> None,
          error |-> Some(errorOr(o.response.body.error, "Analysis failed"))]
    ELSE [status |-> "success", query |-> query,
          analysis |-> o.response.body.data,
          markdown |-> o.response.body.markdown, error |-> None]

\* Variant: a rejected fetch puts the page back into its first state.
settledState_idleOnReject(query, o) ==
    IF o.kind = "rejected"
    THEN [status |-> "idle", query |-> <<>>, analysis |-> None,
          markdown |-> None, error |-> None]
    ELSE IF ~(o.response.status \in 200..299) \/ ~o.response.body.success
    THEN [status |-> "error", query |-> query, analysis |-> None,
          markdown |-> None,
          error |-> Some(errorOr(o.response.body.error, "Analysis failed"))]
    ELSE [status |-> "success", query |-> query,
          analysis |-> o.response.body.data,
          markdown |-> o.response.body.markdown, error |-> None]

\* The state handleAnalyze(query) sets once its fetch has settled with o.
settledState(query, o) ==
    IF o.kind = "rejected"
    THEN [status |-> "error", query |-> query, analysis |-> None,
          markdown |-> None, error |-> Some(o.message)]
    ELSE IF ~(o.response.status \in 200..299) \/ ~o.response.body.success
    THEN [status |-> "error", query |-> query, analysis |-> None,
          markdown |-> None,
          error |-> Some(errorOr(o.response.body.error, "Analysis failed"))]
    ELSE [status |-> "success", query |-> query,
          analysis |-> o.response.body.data,
          markdown |-> o.response.body.markdown, error |-> None]

Remove(s, i) == SubSeq(s, 1, i - 1) \o SubSeq(s, i + 1, Len(s))

\* The rest of a handleAnalyze call, run when its fetch settles.
settle ==
    /\ alert = None
    /\ \E i \in 1..Len(calls) : \E o \in FetchOutcomes(calls[i]) :
         /\ state' = settledState(calls[i], o)
         /\ calls' = Remove(calls, i)
    /\ settledAt' = now
    /\ UNCHANGED <<field, lastSubmit, now, alert, served, download, other,
                   clipboard>>

\* ErrorDisplay is rendered in the error status only.
retryShown == state.status = "error"

\* Variant: retry submits the text of the input.
retry_usesField ==
    /\ alert = None
    /\ retryShown
    /\ startAnalyze(trim(field))
    /\ UNCHANGED <<field, lastSubmit, now, alert, served, settledAt,
                   download, other, clipboard>>

\* Variant: retry goes through the cool-down guard and stamps the time.
retry_throughGuard ==
    /\ alert = None
    /\ retryShown
    /\ now - lastSubmit >= COOLDOWN_MS
    /\ lastSubmit' = now
    /\ startAnalyze(state.query)
    /\ UNCHANGED <<field, now, alert, served, settledAt, download, other,
                   clipboard>>

\* The Try Again button: onRetry.
retry ==
    /\ alert = None
    /\ retryShown
    /\ startAnalyze(state.query)
    /\ UNCHANGED <<field, lastSubmit, now, alert, served, settledAt,
                   download, other, clipboard>>

TickSteps == {COOLDOWN_MS \div 2, COOLDOWN_MS - 1}

\* Time passes.
Tick ==
    /\ \E d \in TickSteps :
         /\ now + d <= StartTime + MaxElapsed
         /\ now' = now + d
    /\ UNCHANGED <<state, field, lastSubmit, calls, alert, served, settledAt,
                   download, other, clipboard>>

Next ==
    \/ setQuery
    \/ handleSubmit
    \/ dismissAlert
    \/ settle
    \/ retry
    \/ Tick

Spec == Init /\ [][Next]_vars

----------------------------------------------------------------------------
(* The route on its own: any client may post any body.                     *)

receive ==
    /\ \E body \in Bodies : \E env \in Environments :
         served' = Some([body |-> body, env |-> env, result |-> POST(body, env)])
    /\ UNCHANGED <<state, field, lastSubmit, now, calls, alert, settledAt,
                   download, other, clipboard>>

NextRoute == receive

SpecRoute == Init /\ [][NextRoute]_vars

----------------------------------------------------------------------------
(* The route served valid queries, with the key set and a gateway that     *)
(* replies with text: the analyses the model may write, bare or within     *)
(* prose, and the replies of ModelTexts.                                   *)

Analysis(overview, strengths, weaknesses, marketPosition, recommendations) ==
    << Open,
       StringMember("overview", overview),
       ArrayMember("strengths", strengths),
       ArrayMember("weaknesses", weaknesses),
       StringMember("marketPosition", marketPosition),
       ArrayMember("recommendations", recommendations),
       Close >>

\* The same members written in another order.
Reordered(object) ==
    << Open, object[6], object[5], object[4], object[3], object[2], Close >>

ReplyObjects ==
    LET objects == { Analysis("ov", s, w, "mp", r) :
                       s \in {<<"s1">>, <<"s1", "s2">>, <<"s2", "s1">>},
                       w \in {<<"w1">>, <<"w1", "w2">>},
                       r \in {<<"r1">>, <<"r1", "r2", "r3">>} }
    IN objects \cup {Reordered(o) : o \in objects}

ReplyTexts ==
    ReplyObjects \cup {<<Prose>> \o o \o <<Prose>> : o \in ReplyObjects}
                 \cup ModelTexts

ValidQueries == {q \in RawQueries : validateQuery(JSString(q)) = None}

reply ==
    /\ \E q \in ValidQueries : \E text \in ReplyTexts :
         LET body == Body("object", JSString(q))
             env == [apiKey |-> TRUE, gateway |-> [kind |-> "text", text |-> text]]
         IN served' = Some([body |-> body, env |-> env, result |-> POST(body, env)])
    /\ UNCHANGED <<state, field, lastSubmit, now, calls, alert, settledAt,
                   download, other, clipboard>>

NextReply == reply

SpecReply == Init /\ [][NextReply]_vars

----------------------------------------------------------------------------
(* Download of the report: handleDownload applied to the states Home can   *)
(* hold, the queries drawn from a wider alphabet.                          *)

MaxExportRuns == 3

ExportChars == {" ", "a", "Z", "9", "-", ".", "_"}

\* The characters the class [a-z0-9] matches under the flag i.
Alnum == {"a", "Z", "9"}

ExportQueries ==
    {s \in UNION {[1..k -> [ch : ExportChars, n : {1, 2}]] : k \in 1..MaxExportRuns} :
        IsString(s) /\ trim(s) = s}

\* s + t
concat(s, t) ==
    IF s = <<>> THEN t
    ELSE IF t = <<>> THEN s
    ELSE IF s[Len(s)].ch = t[1].ch
    THEN SubSeq(s, 1, Len(s) - 1)
         \o <<[ch |-> t[1].ch, n |-> s[Len(s)].n + t[1].n]>>
         \o Tail(t)
    ELSE s \o t

\* The string of a literal, given by its characters.
RECURSIVE literal(_)
literal(chars) ==
    IF chars = <<>> THEN <<>>
    ELSE concat(<<[ch |-> Head(chars), n |-> 1]>>, literal(Tail(chars)))

\* Variant: the class is matched without the flag i.
RECURSIVE replace_caseSensitive(_)
replace_caseSensitive(s) ==
    IF s = <<>> THEN <<>>
    ELSE concat(<<[ch |-> IF Head(s).ch \in {"a", "9"} THEN Head(s).ch ELSE "-",
                   n |-> Head(s).n]>>,
                replace_caseSensitive(Tail(s)))

\* s.replace(/[^a-z0-9]/gi, '-')
RECURSIVE replace(_)
replace(s) ==
    IF s = <<>> THEN <<>>
    ELSE concat(<<[ch |-> IF Head(s).ch \in Alnum THEN Head(s).ch ELSE "-",
                   n |-> Head(s).n]>>,
                replace(Tail(s)))

\* `competitor-analysis-${...}.md`
fileName(query) ==
    concat(concat(literal(<<"c", "o", "m", "p", "e", "t", "i", "t", "o", "r", "-",
                            "a", "n", "a", "l", "y", "s", "i", "s", "-">>),
                  replace(query)),
           literal(<<".", "m", "d">>))

\* The states of Home at a click on Download: a success with its report,
\* and the states without a report.
DownloadStates ==
    {[status |-> "success", query |-> q,
      analysis |-> Some(jsonParse(FullObject)),
      markdown |-> Some(generateMarkdownReport(q, jsonParse(FullObject))),
      error |-> None] : q \in ExportQueries}
    \cup {[status |-> "idle", query |-> <<>>,
           analysis |-> None, markdown |-> None, error |-> None]}
    \cup {[status |-> st, query |-> q, analysis |-> None, markdown |-> None,
           error |-> IF st = "error" THEN Some("Analysis failed") ELSE None]
            : st \in {"loading", "error"}, q \in {<<[ch |-> "a", n |-> 1]>>}}

InitDownload ==
    /\ state \in DownloadStates
    /\ field = <<>>
    /\ lastSubmit = 0
    /\ now = StartTime
    /\ calls = <<>>
    /\ alert = None
    /\ served = None
    /\ settledAt = 0
    /\ download = None
    /\ clipboard = None
    /\ other = Mounted

handleDownload ==
    /\ alert = None
    /\ IF state.markdown = None \/ state.query = <<>>
       THEN download' = download
       ELSE download' = Some([name |-> fileName(state.query),
                              content |-> state.markdown[1]])
    /\ UNCHANGED <<state, field, lastSubmit, now, calls, alert, served,
                   settledAt, other, clipboard>>

NextDownload == handleDownload

SpecDownload == InitDownload /\ [][NextDownload]_vars

----------------------------------------------------------------------------
(* Two mounted pages side by side.  Each mount of Home and InputForm has   *)
(* its own useState and useRef cells; the second page's are the fields of  *)
(* other, and its handlers are the same code run on those cells.  The      *)
(* texts of the two inputs are typed before the run.                       *)

SessionTexts == {<<[ch |-> "a", n |-> 1]>>, <<[ch |-> "a", n |-> MAX_QUERY_LENGTH]>>}

\* setState({ status: 'loading', query })
loading(query) ==
    [status |-> "loading", query |-> query,
     analysis |-> None, markdown |-> None, error |-> None]

InitSessions ==
    /\ state = Mounted.state
    /\ field \in SessionTexts
    /\ lastSubmit = 0
    /\ now = StartTime
    /\ calls = <<>>
    /\ alert = None
    /\ served = None
    /\ settledAt = 0
    /\ download = None
    /\ clipboard = None
    /\ \E q \in SessionTexts : other = [Mounted EXCEPT !.field = q]

\* Variant: the timestamp is one cell of the module, shared by the pages.
otherHandleSubmit_sharedStamp ==
    /\ other.alert = None
    /\ ~(other.state.status = "loading" \/ trim(other.field) = <<>>)
    /\ LET r == submitOutcome(other.field, now, lastSubmit) IN
         IF r.accepted
         THEN /\ other' = [other EXCEPT !.state = loading(trim(other.field)),
                                        !.calls = Append(other.calls, trim(other.field))]
              /\ lastSubmit' = now
         ELSE /\ other' = [other EXCEPT !.alert = r.alert]
              /\ lastSubmit' = lastSubmit
    /\ UNCHANGED <<state, field, now, calls, alert, served, settledAt,
                   download, clipboard>>

\* handleSubmit of the second page.
otherHandleSubmit ==
    /\ other.alert = None
    /\ ~(other.state.status = "loading" \/ trim(other.field) = <<>>)
    /\ LET r == submitOutcome(other.field, now, other.lastSubmit) IN
         other' = IF r.accepted
                  THEN [other EXCEPT !.lastSubmit = now,
                                     !.state = loading(trim(other.field)),
                                     !.calls = Append(other.calls, trim(other.field))]
                  ELSE [other EXCEPT !.alert = r.alert]
    /\ UNCHANGED <<state, field, lastSubmit, now, calls, alert, served,
                   settledAt, download, clipboard>>

\* The second page's alert dialog is closed.
otherDismissAlert ==
    /\ other.alert # None
    /\ other' = [other EXCEPT !.alert = None]
    /\ UNCHANGED <<state, field, lastSubmit, now, calls, alert, served,
                   settledAt, download, clipboard>>

\* A fetch of the second page settles.
otherSettle ==
    /\ other.alert = None
    /\ \E i \in 1..Len(other.calls) : \E o \in FetchOutcomes(other.calls[i]) :
         other' = [other EXCEPT !.state = settledState(other.calls[i], o),
                                !.calls = Remove(other.calls, i)]
    /\ UNCHANGED <<state, field, lastSubmit, now, calls, alert, served,
                   settledAt, download, clipboard>>

\* Try Again on the second page.
otherRetry ==
    /\ other.alert = None
    /\ other.state.status = "error"
    /\ other' = [other EXCEPT !.state = loading(other.state.query),
                              !.calls = Append(other.calls, other.state.query)]
    /\ UNCHANGED <<state, field, lastSubmit, now, calls, alert, served,
                   settledAt, download, clipboard>>

NextSessions ==
    \/ handleSubmit
    \/ dismissAlert
    \/ settle
    \/ retry
    \/ Tick
    \/ otherHandleSubmit
    \/ otherDismissAlert
    \/ otherSettle
    \/ otherRetry

SpecSessions == InitSessions /\ [][NextSessions]_vars

----------------------------------------------------------------------------
(* The lifecycle of one page together with its two exports, the text of    *)
(* the input typed before the run.                                         *)

InitExport ==
    /\ state = Mounted.state
    /\ field \in SessionTexts
    /\ lastSubmit = 0
    /\ now = StartTime
    /\ calls = <<>>
    /\ alert = None
    /\ served = None
    /\ settledAt = 0
    /\ download = None
    /\ other = Mounted
    /\ clipboard = None

\* handleCopy: nothing without a report; else the report is written to the
\* clipboard, which may refuse, and the user is told the outcome.
handleCopy ==
    /\ alert = None
    /\ IF state.markdown = None
       THEN UNCHANGED <<clipboard, alert>>
       ELSE \E written \in BOOLEAN :
              IF written
              THEN /\ clipboard' = Some(state.markdown[1])
                   /\ alert' = Some("Analysis copied to clipboard!")
              ELSE /\ clipboard' = clipboard
                   /\ alert' = Some("Failed to copy. Please try again.")
    /\ UNCHANGED <<state, field, lastSubmit, now, calls, served, settledAt,
                   download, other>>

NextExport ==
    \/ handleSubmit
    \/ dismissAlert
    \/ settle
    \/ retry
    \/ Tick
    \/ handleCopy
    \/ handleDownload

SpecExport == InitExport /\ [][NextExport]_vars

----------------------------------------------------------------------------
(* Properties of the request lifecycle.                                    *)

Pending(q) ==
    [status |-> "loading", query |-> q, analysis |-> None, markdown |-> None,
     error |-> None]

Terminal == state.status \in {"success", "error"}

\* A field text that passes validation: 1..500 characters once trimmed.
ValidText(q) == trim(q) # <<>> /\ length(trim(q)) <= MAX_QUERY_LENGTH

CooldownOver == now - lastSubmit >= COOLDOWN_MS

WaitMessage == Some("Please wait before submitting again")

\* C1: at most one request is outstanding at any time, the state is loading
\* exactly while one is, and while it is loading the form's submit cannot
\* run, so no second, overlapping request is started.
C1_SingleFlight ==
    /\ Len(calls) <= 1
    /\ isLoading <=> Len(calls) = 1
    /\ isLoading => ~ENABLED handleSubmit

\* A request is outstanding for longer than the cool-down, with a valid text
\* still in the field: only the disabled form holds a second request back.
C1_Witness ==
    /\ isLoading
    /\ Len(calls) = 1
    /\ CooldownOver
    /\ ValidText(field)
    /\ alert = None

\* C2: a submit less than 5000 ms after the last accepted one is rejected on
\* the spot: the state and the outstanding requests are unchanged and the
\* user is alerted in the same step; and the timestamp of accepted
\* submissions only ever advances by 5000 ms or more.
C2_CooldownRejects ==
    [][ /\ (handleSubmit /\ ~CooldownOver)
           => (state' = state /\ calls' = calls /\ alert' = WaitMessage)
        /\ lastSubmit' # lastSubmit
           => (handleSubmit /\ lastSubmit' - lastSubmit >= COOLDOWN_MS) ]_vars

C2_Witness ==
    /\ alert = WaitMessage
    /\ ~CooldownOver
    /\ ValidText(field)

\* C3: a submit rejected by the cool-down guard changes none of status,
\* query, analysis, markdown and error, and leaves lastSubmit as it was.
C3_RejectionFrame ==
    [][ (handleSubmit /\ ~CooldownOver)
        => /\ state'.status = state.status
           /\ state'.query = state.query
           /\ state'.analysis = state.analysis
           /\ state'.markdown = state.markdown
           /\ state'.error = state.error
           /\ lastSubmit' = lastSubmit ]_vars

\* A rejected submit on top of a successful analysis that is still shown.
C3_Witness ==
    /\ alert = WaitMessage
    /\ state.status = "success"
    /\ state.markdown # None
    /\ now - lastSubmit < COOLDOWN_MS

\* C4: the window runs from the start of the last accepted submission: when
\* no request is loading and 5000 ms or more have passed since lastSubmit, a
\* valid text can be submitted, and submitting it gives Pending and restarts
\* the window, whenever the previous request completed.
C4_WindowFromStart ==
    [][ (~isLoading /\ alert = None /\ ValidText(field) /\ CooldownOver)
        => /\ ENABLED handleSubmit
           /\ handleSubmit => (state' = Pending(trim(field)) /\ lastSubmit' = now) ]_vars

\* A submission accepted less than 5000 ms after the previous request
\* completed.
C4_Witness ==
    /\ isLoading
    /\ lastSubmit = now
    /\ settledAt # 0
    /\ now - settledAt > 0
    /\ now - settledAt < COOLDOWN_MS

\* C5: retry leaves Failed{query} for Pending{query} and issues the request
\* with that same query, whatever the input field holds.
C5_RetrySameQuery ==
    [][ retry
        => /\ state.status = "error"
           /\ state' = Pending(state.query)
           /\ calls' = Append(calls, state.query) ]_vars

\* A retried request whose query is not the text of the field.
C5_Witness ==
    /\ isLoading
    /\ calls = <<state.query>>
    /\ trim(field) # state.query

\* C6: the state leaves Pending{query} only when the request settles, for
\* success or error with the same query and an outcome of that query's own
\* request (a report is headed by the query); nothing else changes it.
C6_PendingExits ==
    [][ (isLoading /\ state' # state)
        => /\ settle
           /\ state'.status \in {"success", "error"}
           /\ state'.query = state.query
           /\ calls = <<state.query>>
           /\ \E o \in FetchOutcomes(state.query) :
                 /\ state'.status = "success" <=>
                      (o.kind = "response" /\ o.response.body.success)
                 /\ state'.analysis =
                      (IF state'.status = "success" THEN o.response.body.data ELSE None)
                 /\ state'.markdown =
                      (IF state'.status = "success" THEN o.response.body.markdown ELSE None)
           /\ state'.status = "success"
                 => state'.markdown[1][1] = Line("# Competitive Analysis: ", state.query) ]_vars

\* Both exits have been taken: a report is shown after an earlier failure.
C6_Witness ==
    /\ state.status = "success"
    /\ state.query # <<>>
    /\ state.markdown[1][1].query = state.query
    /\ settledAt = now
    /\ calls = <<>>

\* C7: in Succeeded or Failed, a valid text outside the cool-down window can
\* always be submitted, and submitting it gives Pending with the new query
\* and one request for it.
C7_ResubmitFromTerminal ==
    [][ (Terminal /\ alert = None /\ ValidText(field) /\ CooldownOver)
        => /\ ENABLED handleSubmit
           /\ handleSubmit
              => /\ state' = Pending(trim(field))
                 /\ calls' = <<trim(field)>> ]_vars

\* A submission accepted after an earlier request had completed.
C7_Witness ==
    /\ isLoading
    /\ settledAt # 0
    /\ lastSubmit > settledAt
    /\ calls = <<trim(field)>>

----------------------------------------------------------------------------
(* Properties of validation and of the route's answers.                    *)

\* A text of length 0 or of whitespace only.
Blank(q) == \A i \in 1..Len(q) : q[i].ch \in WhiteSpace

\* The length of q without its leading and trailing whitespace runs.
TrimmedLength(q) ==
    LET inner == {i \in 1..Len(q) : q[i].ch \notin WhiteSpace} IN
      IF inner = {} THEN 0 ELSE length(SubSeq(q, Min(inner), Max(inner)))

\* Clock readings and timestamps handleSubmit is tried on.
ClockReadings ==
    {StartTime, StartTime + COOLDOWN_MS - 1, StartTime + COOLDOWN_MS}
Timestamps == {0, StartTime}

EmptyMessage == Some("Query is required and must be a non-empty string")
TooLongMessage == Some("Query must be less than 500 characters")

\* C8: a blank query never passes validation: handleSubmit accepts it at no
\* clock reading, and the route answers it 400 with the empty-query error,
\* without calling analyzeCompetitor or the gateway.
C8_BlankRejected ==
    /\ \A q \in RawQueries : \A t \in ClockReadings : \A last \in Timestamps :
          Blank(q) => ~submitOutcome(q, t, last).accepted
    /\ served # None =>
          LET req == served[1].body
              res == served[1].result
          IN (req.t = "object" /\ req.query.t = "string" /\ Blank(req.query.v))
             => /\ res.response.status = 400
                /\ ~res.response.body.success
                /\ res.response.body.error = EmptyMessage
                /\ res.analyzed = None
                /\ res.gatewayCalls = 0

\* The route has answered a query of whitespace only, the credential set.
C8_Witness ==
    /\ served # None
    /\ served[1].body.t = "object"
    /\ served[1].body.query.t = "string"
    /\ served[1].body.query.v # <<>>
    /\ Blank(served[1].body.query.v)
    /\ served[1].env.apiKey
    /\ served[1].result.response.status = 400

\* The route's part of C9, for every text and environment.
RouteLengthLimit ==
    \A q \in RawQueries : \A env \in Environments :
       LET res == POST(Body("object", JSString(q)), env) IN
         /\ TrimmedLength(q) > MAX_QUERY_LENGTH
            => /\ res.response.status = 400
               /\ res.response.body.error = TooLongMessage
               /\ res.analyzed = None
         /\ TrimmedLength(q) \in 1..MAX_QUERY_LENGTH
            => /\ res.response.status # 400
               /\ res.analyzed = Some(trim(q))

\* C9: past the cool-down, handleSubmit rejects a text of trimmed length
\* over 500 and accepts every other text it is given, one of trimmed length
\* exactly 500 included; the route answers 400 to the first kind and passes
\* the second kind to the pipeline.
C9_LengthLimit ==
    /\ RouteLengthLimit
    /\ [][ (handleSubmit /\ CooldownOver)
           => IF TrimmedLength(field) > MAX_QUERY_LENGTH
              THEN /\ alert' = TooLongMessage
                   /\ state' = state
                   /\ calls' = calls
              ELSE /\ state' = Pending(trim(field))
                   /\ calls' = Append(calls, trim(field)) ]_vars

\* A query of exactly 500 characters, typed with whitespace around it, is
\* loading.
C9_Witness ==
    /\ isLoading
    /\ length(state.query) = MAX_QUERY_LENGTH
    /\ length(field) > MAX_QUERY_LENGTH
    /\ calls = <<state.query>>

\* A body whose query property fails validation.
InvalidQuery(req) ==
    /\ req.t = "object"
    /\ \/ req.query.t # "string"
       \/ Blank(req.query.v)
       \/ TrimmedLength(req.query.v) > MAX_QUERY_LENGTH

----------------------------------------------------------------------------
(* Properties of the pipeline.                                             *)

StageOrder == <<"validate", "prompt", "gateway", "extract", "render">>

IsPrefix(s, t) == Len(s) <= Len(t) /\ s = SubSeq(t, 1, Len(s))

\* The reply has no JSON the code can extract.
ExtractionFails(env) ==
    /\ env.gateway.kind = "text"
    /\ \/ jsonMatch(env.gateway.text) = None
       \/ ~isJson(jsonMatch(env.gateway.text)[1])

\* C11: the stages of every request are run in the order validate, prompt,
\* gateway, extract, render and stop at the first failure: a query that
\* fails validation reaches neither the pipeline nor the gateway, and when
\* the gateway call or the extraction fails nothing is rendered and the
\* response carries no markdown.
C11_StagesShortCircuit ==
    served # None =>
       LET req == served[1].body
           env == served[1].env
           res == served[1].result
       IN /\ IsPrefix(res.stages, StageOrder)
          /\ InvalidQuery(req)
             => /\ res.stages = <<"validate">>
                /\ res.analyzed = None
                /\ res.gatewayCalls = 0
          /\ (res.analyzed # None /\ env.apiKey
                /\ (env.gateway.kind \in GatewayThrows \cup {"not_text"}
                     \/ ExtractionFails(env)))
             => /\ Count(res.stages, "render") = 0
                /\ res.response.body.markdown = None
                /\ ~res.response.body.success
          /\ res.response.body.markdown # None => res.stages = StageOrder

\* A reply without JSON stopped the pipeline after the extraction.
C11_Witness ==
    /\ served # None
    /\ served[1].env.apiKey
    /\ ExtractionFails(served[1].env)
    /\ served[1].result.stages = <<"validate", "prompt", "gateway", "extract">>
    /\ served[1].result.response.body.markdown = None

\* The request carries a query that passes the route's validation.
ValidRequest(req) == req.t = "object" /\ validateQuery(req.query) = None

ConfigurationError == Response(500, FALSE, None, None, Some("API configuration error"))

\* C12: without the credential every request with a valid query fails
\* before the gateway is called, and the response is the configuration
\* error with status 500, never the generic failure.
C12_MissingKey ==
    served # None =>
       LET req == served[1].body
           env == served[1].env
           res == served[1].result
       IN (ValidRequest(req) /\ ~env.apiKey)
          => /\ res.analyzed # None
             /\ res.gatewayCalls = 0
             /\ Count(res.stages, "gateway") = 0
             /\ res.response = ConfigurationError

\* A valid query was served without the credential, whatever the gateway
\* would have answered.
C12_Witness ==
    /\ served # None
    /\ ValidRequest(served[1].body)
    /\ ~served[1].env.apiKey
    /\ served[1].env.gateway.kind = "text"
    /\ served[1].result.response = ConfigurationError

GenericError ==
    Response(500, FALSE, None, None,
             Some("Failed to analyze competitor. Please try again."))

SafeMessages ==
    {"Query is required and must be a non-empty string",
     "Query must be less than 500 characters",
     "API configuration error",
     "Failed to analyze competitor. Please try again."}

\* Two runs of the pipeline that fail at the same place and differ in
\* nothing but the message of the error thrown there.
DifferOnlyInMessage(req1, env1, req2, env2) ==
    /\ req1 = req2
    /\ ValidRequest(req1)
    /\ env1.apiKey /\ env2.apiKey
    /\ env1.gateway.kind \in GatewayThrows
    /\ env2.gateway.kind \in GatewayThrows

\* C14: the response to a failed run does not depend on the message of the
\* error that was thrown: two runs that fail at the same place and differ
\* only in that message get the same response body, and the error of every
\* failure is one of the fixed messages.
C14_MessageIndependent ==
    served # None =>
       LET req == served[1].body
           env == served[1].env
           res == served[1].result
       IN /\ ~res.response.body.success
             => /\ res.response.body.error # None
                /\ res.response.body.error[1] \in SafeMessages
          /\ \A env2 \in Environments :
                DifferOnlyInMessage(req, env, req, env2)
                => POST(req, env2).response.body = res.response.body

\* A gateway failure whose message holds the name of the key was answered
\* as a configuration error although the key was set.
C14_Witness ==
    /\ served # None
    /\ ValidRequest(served[1].body)
    /\ served[1].env.apiKey
    /\ served[1].env.gateway.kind = "throws_names_key"
    /\ served[1].result.response = ConfigurationError

\* The shape required of an analysis: every field present, overview and
\* marketPosition non-empty strings, the other three non-empty arrays of
\* non-empty strings.
WellFormed(analysis) ==
    /\ \A k \in {"overview", "marketPosition"} :
          /\ analysis[k] # None
          /\ analysis[k][1].t = "string"
          /\ analysis[k][1].items[1] # ""
    /\ \A k \in {"strengths", "weaknesses", "recommendations"} :
          /\ analysis[k] # None
          /\ analysis[k][1].t = "array"
          /\ Len(analysis[k][1].items) >= 1
          /\ \A i \in 1..Len(analysis[k][1].items) : analysis[k][1].items[i] # ""

\* C15: a successful response carries an analysis of the required shape,
\* and a reply whose JSON parses to an object of any other shape is
\* answered as a failure.
C15_SchemaEnforced ==
    served # None =>
       LET res == served[1].result
           env == served[1].env
       IN /\ res.response.body.success
             => /\ res.response.body.data # None
                /\ WellFormed(res.response.body.data[1])
          /\ (res.analyzed # None /\ env.apiKey /\ env.gateway.kind = "text"
                /\ ~ExtractionFails(env)
                /\ ~WellFormed(jsonParse(jsonMatch(env.gateway.text)[1])))
             => ~res.response.body.success

\* A reply without the overview field was answered with status 200 and the
\* analysis as parsed.
C15_Witness ==
    /\ served # None
    /\ served[1].env.gateway = [kind |-> "text", text |-> NoOverview]
    /\ served[1].result.response.status = 200
    /\ served[1].result.response.body.success
    /\ served[1].result.response.body.data[1]["overview"] = None

\* The index of the closing brace that matches an opening brace, scanning
\* from index i at nesting depth depth; 0 when the text ends first.
RECURSIVE MatchingClose(_, _, _)
MatchingClose(text, i, depth) ==
    IF i > Len(text) THEN 0
    ELSE IF text[i] = Open THEN MatchingClose(text, i + 1, depth + 1)
    ELSE IF text[i] = Close
    THEN IF depth = 1 THEN i ELSE MatchingClose(text, i + 1, depth - 1)
    ELSE MatchingClose(text, i + 1, depth)

\* The first balanced top-level object of a text: from the first opening
\* brace to the closing brace that matches it; None when there is none.
FirstBalanced(text) ==
    LET opens == Indexes(text, Open) IN
      IF opens = {} THEN None
      ELSE LET first == Min(opens)
               last == MatchingClose(text, first + 1, 1)
           IN IF last = 0 THEN None ELSE Some(SubSeq(text, first, last))

\* The reply's first balanced object is valid JSON of the required shape.
EmbedsAnalysis(text) ==
    /\ FirstBalanced(text) # None
    /\ isJson(FirstBalanced(text)[1])
    /\ WellFormed(jsonParse(FirstBalanced(text)[1]))

\* C16: when the reply's first balanced top-level object is a valid
\* analysis, the run succeeds with exactly that object, whatever text and
\* braces stand before and after it.
C16_FirstBalancedObject ==
    served # None =>
       LET env == served[1].env
           res == served[1].result
       IN (res.analyzed # None /\ env.apiKey /\ env.gateway.kind = "text"
             /\ EmbedsAnalysis(env.gateway.text))
          => /\ res.response.body.success
             /\ res.response.body.data
                  = Some(jsonParse(FirstBalanced(env.gateway.text)[1]))

\* A reply that holds a valid object followed by prose and a second pair of
\* braces was answered as a failure.
C16_Witness ==
    /\ served # None
    /\ served[1].result.analyzed # None
    /\ served[1].env.apiKey
    /\ served[1].env.gateway.kind = "text"
    /\ EmbedsAnalysis(served[1].env.gateway.text)
    /\ jsonMatch(served[1].env.gateway.text) # FirstBalanced(served[1].env.gateway.text)
    /\ served[1].result.response = GenericError

NoJsonError == Error("Failed to extract JSON from response", FALSE)

\* C17: a reply with no balanced top-level object, for want of an opening
\* brace or of the brace that closes it, fails with the no-JSON error, and
\* a reply whose balanced object is not valid JSON fails with another
\* error, that of the parse.
C17_NoJsonDistinct ==
    served # None =>
       LET env == served[1].env
           res == served[1].result
       IN (res.analyzed # None /\ env.apiKey /\ env.gateway.kind = "text")
          => LET run == analyzeCompetitor(res.analyzed[1], env)
                 object == FirstBalanced(env.gateway.text)
             IN /\ object = None => run.error = Some(NoJsonError)
                /\ (object # None /\ ~isJson(object[1]))
                   => (run.error # None /\ run.error # Some(NoJsonError))

\* A reply whose opening brace is never closed was taken for JSON and
\* failed in the parse.
C17_Witness ==
    /\ served # None
    /\ served[1].result.analyzed # None
    /\ served[1].env.apiKey
    /\ served[1].env.gateway.kind = "text"
    /\ FirstBalanced(served[1].env.gateway.text) = None
    /\ jsonMatch(served[1].env.gateway.text) # None
    /\ analyzeCompetitor(served[1].result.analyzed[1], served[1].env).error
         = Some(Error("Unexpected token in JSON", FALSE))

\* The gateway call fails; the reply cannot be parsed.
GatewayFails(env) == env.apiKey /\ env.gateway.kind \in GatewayThrows

ParseFails(env) == env.apiKey /\ ExtractionFails(env)

\* C18: a failure of the gateway call and a failure to parse the reply are
\* reported differently: the response to a request whose gateway call
\* failed is not the response the same request gets when the reply cannot
\* be parsed.
C18_DistinctKinds ==
    served # None =>
       LET req == served[1].body
           env == served[1].env
           res == served[1].result
       IN (ValidRequest(req) /\ GatewayFails(env))
          => \A env2 \in Environments :
                ParseFails(env2)
                => POST(req, env2).response.body # res.response.body

\* A failed gateway call was answered with the very response of a reply
\* without JSON.
C18_Witness ==
    /\ served # None
    /\ ValidRequest(served[1].body)
    /\ GatewayFails(served[1].env)
    /\ served[1].result.response
         = POST(served[1].body,
                [apiKey |-> TRUE, gateway |-> [kind |-> "text", text |-> <<Prose>>]]).response

\* The indexes of a line in a report.
LinesAt(md, line) == {i \in 1..Len(md) : md[i] = line}

\* The section under a heading: the heading stands once in the report and
\* the lines after it are those given, followed by an empty line.
Section(md, heading, lines) ==
    /\ Cardinality(LinesAt(md, Plain(heading))) = 1
    /\ LET h == Min(LinesAt(md, Plain(heading))) IN
         /\ h + Len(lines) + 1 <= Len(md)
         /\ \A i \in 1..Len(lines) : md[h + i] = Plain(lines[i])
         /\ md[h + Len(lines) + 1] = Plain("")

Dashed(items) == [i \in 1..Len(items) |-> "- " \o items[i]]

Value(analysis, k) == analysis[k][1].items

SectionHeadings ==
    << "## Company Overview", "## Key Strengths", "## Key Weaknesses",
       "## Market Position", "## Recommendations" >>

\* C19: the report of a valid query and a well-formed analysis starts with
\* the heading naming the query, has the five sections in the order
\* overview, strengths, weaknesses, market position, recommendations, lists
\* the items of each array one to a line after "- " in their order, and ends
\* with the attribution line; it is a function of the query and the analysis
\* alone.
C19_ReportLayout ==
    served # None =>
       LET res == served[1].result
           out == res.response.body
       IN (out.success /\ WellFormed(out.data[1]))
          => LET md == out.markdown[1]
                 analysis == out.data[1]
                 query == res.analyzed[1]
             IN /\ md[1] = Line("# Competitive Analysis: ", query)
                /\ \A i \in 2..Len(md) : md[i].query = <<>>
                /\ Section(md, SectionHeadings[1], Value(analysis, "overview"))
                /\ Section(md, SectionHeadings[2], Dashed(Value(analysis, "strengths")))
                /\ Section(md, SectionHeadings[3], Dashed(Value(analysis, "weaknesses")))
                /\ Section(md, SectionHeadings[4], Value(analysis, "marketPosition"))
                /\ Section(md, SectionHeadings[5], Dashed(Value(analysis, "recommendations")))
                /\ \A i \in 1..4 :
                      Min(LinesAt(md, Plain(SectionHeadings[i])))
                        < Min(LinesAt(md, Plain(SectionHeadings[i + 1])))
                /\ md[Len(md)] = Plain("*Generated by Competitor Quick Scan*")
                /\ md[Len(md) - 1] = Plain("---")
                /\ \A text \in ReplyTexts :
                      LET again == POST(served[1].body,
                                        [apiKey |-> TRUE,
                                         gateway |-> [kind |-> "text", text |-> text]])
                      IN (again.response.body.success
                            /\ again.response.body.data = out.data)
                         => again.response.body.markdown = out.markdown

\* A report was rendered from an analysis written within prose, its members
\* out of order and with three recommendations.
C19_Witness ==
    /\ served # None
    /\ served[1].result.response.body.success
    /\ WellFormed(served[1].result.response.body.data[1])
    /\ served[1].env.gateway.text[1] = Prose
    /\ served[1].env.gateway.text[3].key = "recommendations"
    /\ Len(Value(served[1].result.response.body.data[1], "recommendations")) = 3
    /\ Len(Value(served[1].result.response.body.data[1], "strengths")) = 2

\* The character at index i (from 1) of a string.
RECURSIVE charAt(_, _)
charAt(s, i) == IF i <= Head(s).n THEN Head(s).ch ELSE charAt(Tail(s), i - Head(s).n)

NamePrefix ==
    <<"c", "o", "m", "p", "e", "t", "i", "t", "o", "r", "-",
      "a", "n", "a", "l", "y", "s", "i", "s", "-">>

NameSuffix == <<".", "m", "d">>

\* C20: the name of a downloaded file is 'competitor-analysis-', then the
\* state's query with each character outside [A-Za-z0-9] replaced by one
\* '-' and every other character kept in its place, then '.md'; the
\* file's content is the state's markdown.
C20_FileName ==
    download # None =>
       LET name == download[1].name
           query == state.query
           n == length(query)
       IN /\ state.markdown = Some(download[1].content)
          /\ IsString(name)
          /\ length(name) = Len(NamePrefix) + n + Len(NameSuffix)
          /\ \A i \in 1..Len(NamePrefix) : charAt(name, i) = NamePrefix[i]
          /\ \A i \in 1..n :
                charAt(name, Len(NamePrefix) + i)
                  = IF charAt(query, i) \in {"a", "Z", "9"}
                    THEN charAt(query, i) ELSE "-"
          /\ \A i \in 1..Len(NameSuffix) :
                charAt(name, Len(NamePrefix) + n + i) = NameSuffix[i]

\* A report was downloaded for a query that holds an upper-case letter and
\* two adjacent characters outside the class.
C20_Witness ==
    /\ download # None
    /\ \E i \in 1..Len(state.query) : state.query[i].ch = "Z"
    /\ \E i \in 1..Len(state.query) :
          state.query[i].ch \notin {"a", "Z", "9", "-"} /\ state.query[i].n = 2
    /\ length(download[1].name) = 23 + length(state.query)

----------------------------------------------------------------------------
(* Properties of independent sessions.                                     *)

\* The cells of the first page.
Own == <<state, field, lastSubmit, calls, alert>>

\* C21: two pages do not interfere: a step that changes the cells of one
\* page changes none of the other's, and a submit on a page is judged
\* against that page's own timestamp and state alone, so a valid text
\* outside the page's own window is accepted whatever the other page has
\* just done.
C21_SessionsIndependent ==
    [][ /\ other' # other => Own' = Own
        /\ Own' # Own => other' = other
        /\ otherHandleSubmit
           => IF now - other.lastSubmit >= COOLDOWN_MS
              THEN /\ other'.state = loading(trim(other.field))
                   /\ other'.lastSubmit = now
              ELSE /\ other'.alert = WaitMessage
                   /\ other'.state = other.state
                   /\ other'.lastSubmit = other.lastSubmit
        /\ handleSubmit
           => IF CooldownOver
              THEN state' = loading(trim(field)) /\ lastSubmit' = now
              ELSE alert' = WaitMessage /\ state' = state /\ lastSubmit' = lastSubmit
      ]_vars

\* Both pages are loading, the second submission accepted inside the
\* window of the first.
C21_Witness ==
    /\ isLoading
    /\ other.state.status = "loading"
    /\ other.lastSubmit > lastSubmit
    /\ other.lastSubmit - lastSubmit < COOLDOWN_MS

----------------------------------------------------------------------------
(* Further properties of the route.                                        *)

\* C22: every response body of the route is one of two shapes: success
\* true with data and markdown and no error, or success false with an
\* error and neither data nor markdown.
C22_ResponseShape ==
    served # None =>
       LET out == served[1].result.response.body IN
         /\ out.success \in BOOLEAN
         /\ out.success <=> (out.data # None /\ out.markdown # None /\ out.error = None)
         /\ ~out.success <=> (out.error # None /\ out.data = None /\ out.markdown = None)

\* A body that was not JSON was answered from the catch block.
C22_Witness ==
    /\ served # None
    /\ served[1].body.t = "not_json"
    /\ served[1].result.response.body
         = [success |-> FALSE, data |-> None, markdown |-> None,
            error |-> Some("Failed to analyze competitor. Please try again.")]

----------------------------------------------------------------------------
(* Further properties of the request lifecycle.                            *)

\* C23: a loading state is never stuck: while the state is loading its
\* request is outstanding and nothing holds its settling back (no dialog is
\* open and the fetch has an outcome), and the step that follows the
\* fetch sets success or error on every path, the rejected fetch and the
\* unparsable body included, leaving no request behind.
C23_PendingLeft ==
    [][ /\ isLoading
           => (Len(calls) = 1 /\ alert = None /\ FetchOutcomes(calls[1]) # {})
        /\ settle => (state'.status \in {"success", "error"} /\ calls' = <<>>)
      ]_vars

\* A request whose response body could not be parsed ended in the error
\* state.
C23_Witness ==
    /\ state.status = "error"
    /\ state.error = Some("Unexpected token < in JSON")
    /\ calls = <<>>
    /\ settledAt = now

\* C24: retry is outside the cool-down guard: in the error state it can be
\* taken at any clock reading, it leaves lastSubmit as it was, and a form
\* submission is accepted exactly when its text is valid and 5000 ms have
\* passed since lastSubmit, the start of the last accepted form submission.
C24_RetryOutsideCooldown ==
    [][ /\ (state.status = "error" /\ alert = None) => ENABLED retry
        /\ retry => (lastSubmit' = lastSubmit /\ state' = Pending(state.query))
        /\ handleSubmit
           => ((lastSubmit' = now /\ state' = Pending(trim(field)))
                 <=> (CooldownOver /\ ValidText(field)))
      ]_vars

\* A retry taken inside the cool-down window: the request was started
\* after the last one settled, and lastSubmit is older than that.
C24_Witness ==
    /\ isLoading
    /\ settledAt # 0
    /\ lastSubmit < settledAt
    /\ now - lastSubmit < COOLDOWN_MS

\* The alert of a text that fails validation.
InvalidAlert(q) ==
    IF trim(q) = <<>> THEN Some("Please enter a company name or URL")
    ELSE Some("Query must be less than 500 characters")

\* C25: handleSubmit checks the cool-down before the text and writes the
\* timestamp on acceptance only: a submit of a blank or over-long text
\* changes neither the state nor lastSubmit nor the outstanding requests,
\* and alerts with the wait message inside the window and with the
\* validation message outside it.
C25_InvalidSubmitFrame ==
    /\ \A q \in RawQueries : \A t \in ClockReadings : \A last \in Timestamps :
          ~ValidText(q)
          => submitOutcome(q, t, last)
               = [accepted |-> FALSE,
                  alert |-> IF t - last < COOLDOWN_MS THEN WaitMessage
                            ELSE InvalidAlert(q)]
    /\ [][ (handleSubmit /\ ~ValidText(field))
           => /\ state' = state
              /\ lastSubmit' = lastSubmit
              /\ calls' = calls
              /\ alert' = (IF CooldownOver THEN InvalidAlert(field) ELSE WaitMessage)
         ]_vars

\* An over-long text was rejected after an accepted submission, 5000 ms or
\* more after it, and the window was not restarted.
C25_Witness ==
    /\ alert = Some("Query must be less than 500 characters")
    /\ lastSubmit = StartTime
    /\ now - lastSubmit >= COOLDOWN_MS
    /\ ~isLoading

\* What a fetch may settle with, whatever server answers: any status, any
\* success flag, with or without payload and error string, or a rejection.
AnyOutcomes ==
    {[kind |-> "response", message |-> "",
      response |-> Response(st, su, IF full THEN Some(jsonParse(FullObject)) ELSE None,
                            IF full THEN Some(<<Plain("report")>>) ELSE None, e)]
        : st \in {200, 201, 400, 500}, su \in BOOLEAN, full \in BOOLEAN,
          e \in {None, Some(""), Some("API configuration error")}}
    \cup {[kind |-> "rejected", message |-> m, response |-> NoResponse]
            : m \in {"Failed to fetch", "Unexpected token < in JSON"}}

Ok(o) == o.kind = "response" /\ o.response.status \in 200..299

\* C26: the client's state is success exactly when the response is ok and
\* its body says success; every other outcome, a non-ok status, a body
\* without success, a rejected fetch or a body that cannot be parsed, gives
\* the error state without analysis or markdown, with the body's error
\* string as the message when there is one and a non-empty message
\* otherwise.
C26_SuccessOnlyWhenOk ==
    /\ \A o \in AnyOutcomes :
          LET s == settledState(<<[ch |-> "a", n |-> 1]>>, o) IN
            /\ s.status \in {"success", "error"}
            /\ s.status = "success" <=> (Ok(o) /\ o.response.body.success)
            /\ s.status = "success"
               => (s.analysis = o.response.body.data
                     /\ s.markdown = o.response.body.markdown /\ s.error = None)
            /\ s.status = "error"
               => /\ s.analysis = None /\ s.markdown = None
                  /\ s.error # None /\ s.error[1] # ""
                  /\ (o.kind = "response" /\ o.response.body.error \notin {None, Some("")})
                     => s.error = o.response.body.error
    /\ [][ settle
           => \E o \in FetchOutcomes(state.query) :
                 /\ state'.status = (IF Ok(o) /\ o.response.body.success
                                     THEN "success" ELSE "error")
                 /\ state'.status = "error"
                    => /\ state'.error # None /\ state'.error[1] # ""
                       /\ o.kind = "response" => state'.error = o.response.body.error
                 /\ state'.status = "success"
                    => state'.analysis = o.response.body.data
         ]_vars

\* The route's answer 500 'API configuration error' is shown as the error.
C26_Witness ==
    /\ state.status = "error"
    /\ state.error = Some("API configuration error")
    /\ state.analysis = None
    /\ state.markdown = None
    /\ calls = <<>>

\* C27: the form and the route agree on validity: a text the form accepts
\* is handed on trimmed, the route's validation passes it, and the route
\* gives the pipeline that very string; so no request of the page, first
\* or retried, is answered 400.
C27_ValidationAgrees ==
    /\ \A q \in RawQueries :
          submitOutcome(q, StartTime + COOLDOWN_MS, StartTime).accepted
          => /\ validateQuery(JSString(trim(q))) = None
             /\ trim(trim(q)) = trim(q)
    /\ [][ calls' # calls /\ calls' # <<>>
           => \A env \in Environments :
                 LET sent == calls'[Len(calls')]
                     res == POST(Body("object", JSString(sent)), env)
                 IN /\ res.response.status # 400
                    /\ res.analyzed = Some(sent)
         ]_vars

\* A text of 500 characters between spaces was submitted trimmed.
C27_Witness ==
    /\ isLoading
    /\ calls = <<state.query>>
    /\ length(state.query) = MAX_QUERY_LENGTH
    /\ length(field) > MAX_QUERY_LENGTH
    /\ lastSubmit = now

\* Something is thrown inside POST: by request.json(), by the destructuring
\* of a null body, or by analyzeCompetitor.
Throws(req, env) ==
    \/ req.t \in NotJson \cup {"null"}
    \/ ValidRequest(req) /\ ~analyzeCompetitor(trim(req.query.v), env).ok

\* C28: POST answers every request: whatever is thrown while the body is
\* read, the query validated or the pipeline run is answered from the
\* catch block with status 500, success false and one of its two messages,
\* and the gateway is called for no request whose query did not pass
\* validation.
C28_HandlerTotal ==
    served # None =>
       LET req == served[1].body
           env == served[1].env
           res == served[1].result
       IN /\ res.response.status \in {200, 400, 500}
          /\ Throws(req, env) <=> res.response \in {GenericError, ConfigurationError}
          /\ Throws(req, env)
             => (res.response.status = 500 /\ ~res.response.body.success)
          /\ req.t \in NotJson \cup {"null"}
             => (res.stages = <<>> /\ res.analyzed = None)
          /\ res.gatewayCalls > 0 => ValidRequest(req)

\* A null body, whose destructuring throws, was answered from the catch
\* block.
C28_Witness ==
    /\ served # None
    /\ served[1].body.t = "null"
    /\ served[1].result.response = GenericError
    /\ served[1].result.gatewayCalls = 0

\* The fields of the state agree with its status.
FieldsMatchStatus(s) ==
    /\ s.status \in {"idle", "loading", "success", "error"}
    /\ s.status \in {"idle", "loading"}
       => (s.analysis = None /\ s.markdown = None /\ s.error = None)
    /\ s.status = "success" => s.error = None
    /\ s.status = "error"
       => (s.analysis = None /\ s.markdown = None /\ s.error # None)

\* C29: in every reachable state of the page the fields agree with the
\* status: no analysis, markdown or error in idle and loading, no error in
\* success, an error and neither analysis nor markdown in error.  Hence
\* copy and download change the clipboard or the downloaded file in the
\* success status only, to the report of the state, and neither changes
\* the state, the outstanding requests or the timestamp.
C29_FieldsMatchStatus ==
    [][ /\ FieldsMatchStatus(state) /\ FieldsMatchStatus(state')
        /\ (handleCopy \/ handleDownload)
           => (state' = state /\ calls' = calls /\ lastSubmit' = lastSubmit)
        /\ clipboard' # clipboard
           => (state.status = "success" /\ clipboard' = state.markdown)
        /\ download' # download
           => (state.status = "success" /\ download'[1].content = state.markdown[1])
      ]_vars

\* A report was copied and downloaded, and the page then moved on to the
\* error state.
C29_Witness ==
    /\ state.status = "error"
    /\ clipboard # None
    /\ download # None
    /\ download[1].content = clipboard[1]
    /\ alert = None

\* C30: idle is the first state only: the status is idle exactly as long
\* as no submission has been accepted, and no step, be it submit, retry,
\* the settling of a request, copy or download, leads from another status
\* back to idle.
C30_IdleOnlyInitially ==
    [][ /\ state.status = "idle" <=> lastSubmit = 0
        /\ state.status # "idle" => state'.status # "idle"
        /\ state'.status = "idle" => state' = state
      ]_vars

\* A second report is shown while the clipboard still holds the first.
C30_Witness ==
    /\ state.status = "success"
    /\ clipboard # None
    /\ clipboard # state.markdown
    /\ lastSubmit > StartTime

====
